---- MODULE Spec2Model ----
(***************************************************************************)
(* A model of the RDLA simulation engine (src/dla.rs), its grid and seed   *)
(* catalog (src/grid.rs), the worker thread / consumer locking discipline  *)
(* (src/dla.rs spawn_worker_thread, src/gui.rs, src/main.rs) and the       *)
(* bincode + gzip persistence of the grid (src/grid.rs).                   *)
(*                                                                         *)
(* The DlaGrid struct is one record, `dla`, as it is one value behind one  *)
(* Mutex in the program.  Cell vectors are sequences: the cell with the    *)
(* 0-based index i of the source is cells[i + 1].                          *)
(***************************************************************************)
EXTENDS Integers, Sequences, FiniteSets, TLC

VARIABLES
    dla,        \* the DlaGrid value shared behind the Mutex
    failure,    \* "none", or the panic that ended the process
    ev,         \* the last operation that acted, with its outcome
    fs,         \* the file system: path -> NoFile or a sequence of bytes
    lock,       \* holder of the Mutex: "none", "worker" or "gui"
    wpc,        \* position of the worker thread in its loop
    wi,         \* index of the worker's `for _ in 0..10` loop
    gpc,        \* position of the consumer in the event loop
    hold,       \* what the worker saw when it took the Mutex
    loaded      \* what the caller of the DlaGrid holds: the result of the last
                \* Grid::from_file or Grid::from, the Gui's copies of the fields

vars == <<dla, failure, ev, fs, lock, wpc, wi, gpc, hold, loaded>>

----------------------------------------------------------------------------
(* Bounds of the model *)

\* largest target particle count a configuration or the target handler passes
MaxParticles == 4
\* cap on the `updates` counter of one run between two reseeds
MaxUpdates == 2
\* largest spawn radius the radius handler passes
MaxRadius == 1
\* largest cell id of a grid handed to the codec specification
MaxId == 2

\* grid dimensions a configuration or handle_reset passes
Sizes == {<<3, 3>>, <<1, 2>>}
\* seed kinds a configuration or handle_grid_type_selected passes
Kinds == {"Center", "BottomEdge", "AllEdges"}
\* every variant of config::GridType
GridType == {"Center", "BottomEdge", "AllEdges", "FourDots", "RandFive", "Circle"}
\* base names of the files the save / load handlers are given; a path is a
\* base name followed by gz copies of the suffix ".gz"
Bases == {"a"}
Paths == [base : Bases, gz : 0..2]
NoFile == <<-1>>

----------------------------------------------------------------------------
(* src/grid.rs : cells, seed catalog *)

Min(a, b) == IF a < b THEN a ELSE b

Particle(f, i) == [filled |-> f, id |-> i]

\* Grid::get_idx
Grid_get_idx(width, x, y) == x + y * width

\* Grid::filled ; the index must be in range (Vec indexing panics otherwise)
filled(grid, idx) == grid.cells[idx + 1].filled

\* Grid::set_fill
set_fill(grid, idx, f) == [grid EXCEPT !.cells[idx + 1].filled = f]

\* Vec indexing: cells[idx] panics when idx >= cells.len()
IndexPanics(grid, idx) == idx < 0 \/ idx >= Len(grid.cells)

\* Grid::cells_empty panics on a zero dimension
cells_empty_panics(width, height) == width = 0 \/ height = 0

cells_empty(width, height) == [i \in 1..(width * height) |-> FALSE]

\* a Vec<bool> with the cells of `idxs` (0-based) set; an index out of range
\* is a panic, reported by the *_panics operators below
SetAll(v, idxs) == [i \in 1..Len(v) |-> IF (i - 1) \in idxs THEN TRUE ELSE v[i]]

cells_center_idx(width, height) == (width * height) \div 2 + (width \div 2)

cells_center(width, height) ==
    SetAll(cells_empty(width, height), {cells_center_idx(width, height)})

\* a bottom edge seed that fills the row y = 0
cells_bottom_edge_top(width, height) ==
    SetAll(cells_empty(width, height),
           {Grid_get_idx(width, x, 0) : x \in 0..(width - 1)})

cells_bottom_edge(width, height) ==
    SetAll(cells_empty(width, height),
           {Grid_get_idx(width, x, height - 1) : x \in 0..(width - 1)})

cells_all_edges(width, height) ==
    SetAll(cells_bottom_edge(width, height),
           {Grid_get_idx(width, x, 0) : x \in 0..(width - 1)}
           \cup {Grid_get_idx(width, 0, y) : y \in 0..(height - 1)}
           \cup {Grid_get_idx(width, width - 1, y) : y \in 0..(height - 1)})

cells_four_dots_idxs(width, height) ==
    LET tl_y == height \div 3
        bl_y == tl_y * 2
        tl_x == width \div 3
        tr_x == tl_x * 2
    IN  {Grid_get_idx(width, tl_x, tl_y), Grid_get_idx(width, tr_x, tl_y),
         Grid_get_idx(width, tl_x, bl_y), Grid_get_idx(width, tr_x, bl_y)}

cells_four_dots(width, height) ==
    SetAll(cells_empty(width, height), cells_four_dots_idxs(width, height))

\* five draws with replacement: every non-empty set of at most five cells
cells_random5(width, height) ==
    {SetAll(cells_empty(width, height), S) :
        S \in {T \in SUBSET (0..(width * height - 1)) :
                  Cardinality(T) >= 1 /\ Cardinality(T) <= 5}}

\* floor of the square root, as `(n as f32).sqrt() as usize` for small n
ISqrt(n) == CHOOSE r \in 0..n : r * r <= n /\ (r + 1) * (r + 1) > n

\* Grid::distance
distance(x, y, x2, y2) == ISqrt((x - x2) * (x - x2) + (y - y2) * (y - y2))

\* Grid::dist_to_center
dist_to_center(grid, x, y) == distance(x, y, grid.width \div 2, grid.height \div 2)

cells_circle_panics(width, height, radius) ==
    ~(radius < width \div 2 /\ radius < height \div 2)

cells_circle(width, height, radius) ==
    SetAll(cells_empty(width, height),
           {Grid_get_idx(width, x, y) : <<x, y>> \in
               {p \in (0..(width - 1)) \X (0..(height - 1)) :
                   distance(p[1], p[2], width \div 2, height \div 2) = radius}})

\* new[mid_idx] = true panics when mid_idx is not an index of the vector
cells_center_panics(width, height) ==
    cells_center_idx(width, height) >= width * height

\* new[tl_idx] = true, ... panic when an index is not an index of the vector
cells_four_dots_panics(width, height) ==
    \E i \in cells_four_dots_idxs(width, height) : i >= width * height

\* Grid::from panics: a zero dimension, the circle's assertion, the centre
\* index or a dot index out of range
Grid_from_panics(grid_type, width, height) ==
    \/ cells_empty_panics(width, height)
    \/ grid_type = "Circle"
       /\ cells_circle_panics(width, height, Min(width, height) \div 10)
    \/ grid_type = "Center" /\ cells_center_panics(width, height)
    \/ grid_type = "FourDots" /\ cells_four_dots_panics(width, height)

\* Grid::from : the set of grids the call may return (RandFive is random)
Grid_from(grid_type, width, height) ==
    LET cs == CASE grid_type = "BottomEdge" -> {cells_bottom_edge(width, height)}
                [] grid_type = "AllEdges"   -> {cells_all_edges(width, height)}
                [] grid_type = "FourDots"   -> {cells_four_dots(width, height)}
                [] grid_type = "RandFive"   -> cells_random5(width, height)
                [] grid_type = "Circle"     ->
                       {cells_circle(width, height, Min(width, height) \div 10)}
                [] OTHER                    -> {cells_center(width, height)}
    IN  {[cells  |-> [i \in 1..Len(c) |-> Particle(c[i], 0)],
          width  |-> width,
          height |-> height] : c \in cs}

\* Grid::stuck_particles
Grid_stuck_particles(grid) ==
    Cardinality({i \in 1..Len(grid.cells) : grid.cells[i].filled})

----------------------------------------------------------------------------
(* src/dla.rs : the simulation engine *)

None == <<>>
Some(v) == <<v>>

NoParticle == [exists |-> FALSE, pos |-> <<0, 0>>]

\* DlaGrid::from(config) for one grid the seed catalog returned
DlaGrid_from(grid, grid_type, particles) ==
    [grid            |-> grid,
     cur_part        |-> NoParticle,
     stuck_particles |-> Grid_stuck_particles(grid),
     is_complete     |-> FALSE,
     particles       |-> particles,
     updates         |-> 0,
     fill_color      |-> "Seafoam",
     empty_color     |-> "Black",
     paused          |-> TRUE,
     grid_type       |-> grid_type,
     spawn_radius    |-> None,
     do_resize       |-> FALSE,
     theme           |-> Some("Seafoam")]

\* DlaGrid::get_idx
get_idx(d, x, y) == x + y * d.grid.width

\* DlaGrid::valid_grid_pos
valid_grid_pos(d, pos) ==
    /\ pos[1] < d.grid.width
    /\ pos[1] >= 0
    /\ pos[2] < d.grid.height
    /\ pos[2] >= 0

\* DlaGrid::get_neighbors
get_neighbors(x, y) ==
    {<<x - 1, y - 1>>, <<x, y - 1>>, <<x + 1, y - 1>>,
     <<x - 1, y>>,                   <<x + 1, y>>,
     <<x - 1, y + 1>>, <<x, y + 1>>, <<x + 1, y + 1>>}

\* the neighbours should_stick and random_walk look up in the cell vector
LookedUp(d, x, y) == {n \in get_neighbors(x, y) : valid_grid_pos(d, n)}

\* a lookup of a neighbour indexes past the end of the cell vector (only a
\* grid whose cell vector is shorter than width*height makes this happen)
NeighborsPanic(d, x, y) ==
    \E n \in LookedUp(d, x, y) : IndexPanics(d.grid, get_idx(d, n[1], n[2]))

\* should_stick that looks at the four orthogonal neighbours only
should_stick_orthogonal(d, x, y) ==
    \E n \in {m \in LookedUp(d, x, y) : m[1] = x \/ m[2] = y} :
        filled(d.grid, get_idx(d, n[1], n[2]))

\* DlaGrid::should_stick
should_stick(d, x, y) ==
    \E n \in LookedUp(d, x, y) : filled(d.grid, get_idx(d, n[1], n[2]))

\* random_walk that takes a neighbour off the grid for an unfilled cell
random_walk_offgrid(d, x, y) ==
    {n \in get_neighbors(x, y) :
        valid_grid_pos(d, n) => ~filled(d.grid, get_idx(d, n[1], n[2]))}

\* DlaGrid::random_walk : the positions the call may return; the empty set
\* is the panic "No neighbors found for random walk!"
random_walk(d, x, y) ==
    {n \in LookedUp(d, x, y) : ~filled(d.grid, get_idx(d, n[1], n[2]))}

\* the spawn test with `dist >= radius`
valid_spawn_inclusive(d, x, y) ==
    /\ ~filled(d.grid, get_idx(d, x, y))
    /\ IF d.spawn_radius # None
          THEN dist_to_center(d.grid, x, y) >= d.spawn_radius[1]
          ELSE TRUE

\* DlaGrid::random_loc : a candidate is returned when it is unfilled and
\* outside the spawn radius
valid_spawn(d, x, y) ==
    /\ ~filled(d.grid, get_idx(d, x, y))
    /\ IF d.spawn_radius # None
          THEN dist_to_center(d.grid, x, y) > d.spawn_radius[1]
          ELSE TRUE

\* DlaGrid::random_loc : the outcomes of the retry loop.  A valid draw ends
\* the loop; MAX_RETRIES invalid draws in a row end it with the last draw and
\* mark the simulation complete.
random_loc(d) ==
    LET draws == (0..(d.grid.width - 1)) \X (0..(d.grid.height - 1))
    IN  {[pos |-> p, exhausted |-> FALSE, d |-> d] :
            p \in {q \in draws : valid_spawn(d, q[1], q[2])}}
        \cup
        {[pos |-> p, exhausted |-> TRUE, d |-> [d EXCEPT !.is_complete = TRUE]] :
            p \in {q \in draws : ~valid_spawn(d, q[1], q[2])}}

\* the draws index the cell vector: a cell vector shorter than width*height
\* makes the lookup panic
random_loc_panics(d) ==
    \E x \in 0..(d.grid.width - 1), y \in 0..(d.grid.height - 1) :
        IndexPanics(d.grid, get_idx(d, x, y))

Out(d, panic, e) == [d |-> d, panic |-> panic, ev |-> e]

\* DlaGrid::update, lines 258-275: the counter, then the move of the active
\* particle or the spawn of a new one
update_act(d) ==
    LET d1 == [d EXCEPT !.updates = @ + 1] IN
    IF d1.cur_part.exists THEN
        LET old     == d1.cur_part.pos
            old_idx == get_idx(d1, old[1], old[2])
        IN  IF NeighborsPanic(d1, old[1], old[2])
              THEN {Out(d1, "index", "panic")}
            ELSE IF random_walk(d1, old[1], old[2]) = {}
              THEN {Out(d1, "no_neighbors", "panic")}
            ELSE IF IndexPanics(d1.grid, old_idx)
              THEN {Out(d1, "index", "panic")}
            ELSE {Out([d1 EXCEPT !.grid = set_fill(@, old_idx, FALSE),
                                 !.cur_part.pos = new],
                      "none", "walk") :
                     new \in random_walk(d1, old[1], old[2])}
    ELSE
        IF random_loc_panics(d1) THEN {Out(d1, "index", "panic")}
        ELSE {Out([r.d EXCEPT !.cur_part = [exists |-> TRUE, pos |-> r.pos]],
                  "none", IF r.exhausted THEN "exhaust" ELSE "spawn") :
                 r \in random_loc(d1)}

\* update_move that counts the call before it tests is_complete
update_move_counts(d) ==
    IF d.is_complete THEN {Out([d EXCEPT !.updates = @ + 1], "none", "noop")}
    ELSE update_act(d)

\* DlaGrid::update, lines 255-275: the early return of a complete
\* simulation, else the counter and the move or the spawn.  Outcomes whose ev
\* is "noop" have returned; the others go on with update_stick.
update_move(d) ==
    IF d.is_complete THEN {Out(d, "none", "noop")}
    ELSE update_act(d)

\* update_stick with the completion test one particle early
update_stick_early(d) ==
    LET pos == d.cur_part.pos
        idx == get_idx(d, pos[1], pos[2])
        d2  == IF should_stick(d, pos[1], pos[2])
                 THEN [d EXCEPT !.cur_part.exists = FALSE,
                                !.stuck_particles = @ + 1,
                                !.grid.cells[idx + 1].id = d.stuck_particles + 1 + 1]
                 ELSE d
        d3  == [d2 EXCEPT !.grid = set_fill(@, idx, TRUE)]
    IN  IF d3.stuck_particles + 1 >= d3.particles
          THEN [d3 EXCEPT !.is_complete = TRUE]
          ELSE d3

\* update_stick that assigns the outcome of the completion test
update_stick_recomputes(d) ==
    LET pos == d.cur_part.pos
        idx == get_idx(d, pos[1], pos[2])
        d2  == IF should_stick(d, pos[1], pos[2])
                 THEN [d EXCEPT !.cur_part.exists = FALSE,
                                !.stuck_particles = @ + 1,
                                !.grid.cells[idx + 1].id = d.stuck_particles + 1 + 1]
                 ELSE d
        d3  == [d2 EXCEPT !.grid = set_fill(@, idx, TRUE)]
    IN  [d3 EXCEPT !.is_complete = d3.stuck_particles >= d3.particles]

\* DlaGrid::update, lines 277-293: the stick check, the fill of the current
\* cell, the completion check
update_stick(d) ==
    LET pos == d.cur_part.pos
        idx == get_idx(d, pos[1], pos[2])
        d2  == IF should_stick(d, pos[1], pos[2])
                 THEN [d EXCEPT !.cur_part.exists = FALSE,
                                !.stuck_particles = @ + 1,
                                !.grid.cells[idx + 1].id = d.stuck_particles + 1 + 1]
                 ELSE d
        d3  == [d2 EXCEPT !.grid = set_fill(@, idx, TRUE)]
    IN  IF d3.stuck_particles >= d3.particles
          THEN [d3 EXCEPT !.is_complete = TRUE]
          ELSE d3

\* the lookups of lines 277-289 index past the end of the cell vector
update_stick_panics(d) ==
    \/ NeighborsPanic(d, d.cur_part.pos[1], d.cur_part.pos[2])
    \/ IndexPanics(d.grid, get_idx(d, d.cur_part.pos[1], d.cur_part.pos[2]))

\* the outcome of a whole step: how the particle got its position and
\* whether it stuck there
Tag(how, stuck) ==
    CASE how = "walk"    -> IF stuck THEN "walk_stick"    ELSE "walk_free"
      [] how = "spawn"   -> IF stuck THEN "spawn_stick"   ELSE "spawn_free"
      [] how = "exhaust" -> IF stuck THEN "exhaust_stick" ELSE "exhaust_free"

\* DlaGrid::update : every outcome of one call
update(d) ==
    {IF o.ev \in {"noop", "panic"} THEN o
     ELSE IF update_stick_panics(o.d) THEN Out(o.d, "index", "panic")
     ELSE Out(update_stick(o.d), "none",
              Tag(o.ev, should_stick(o.d, o.d.cur_part.pos[1], o.d.cur_part.pos[2]))) :
        o \in update_move(d)}

\* swap_grid_type leaving the active particle in place
swap_grid_type_keeps_particle(d, new_grid, new_grid_type) ==
    [d EXCEPT !.grid            = new_grid,
              !.stuck_particles = Grid_stuck_particles(new_grid),
              !.is_complete     = FALSE,
              !.updates         = 0,
              !.paused          = TRUE,
              !.grid_type       = new_grid_type]

\* swap_grid_type without the reset of the counter
swap_grid_type_keeps_updates(d, new_grid, new_grid_type) ==
    [d EXCEPT !.grid            = new_grid,
              !.cur_part        = NoParticle,
              !.stuck_particles = Grid_stuck_particles(new_grid),
              !.is_complete     = FALSE,
              !.paused          = TRUE,
              !.grid_type       = new_grid_type]

\* DlaGrid::swap_grid_type for one grid the seed catalog returned
swap_grid_type(d, new_grid, new_grid_type) ==
    [d EXCEPT !.grid            = new_grid,
              !.cur_part        = NoParticle,
              !.stuck_particles = Grid_stuck_particles(new_grid),
              !.is_complete     = FALSE,
              !.updates         = 0,
              !.paused          = TRUE,
              !.grid_type       = new_grid_type]

\* handle_particles_changed without its assertion
handle_particles_changed_unchecked(d) == FALSE

\* DlaGrid::handle_particles_changed : the assertion on entry
handle_particles_changed_panics(d) == ~(d.paused \/ d.is_complete)

\* handle_particles_changed testing stuck_particles == particles first
handle_particles_changed_match_first(d, particles) ==
    IF d.particles # particles
      THEN LET d1 == IF d.stuck_particles = particles
                       THEN [d EXCEPT !.is_complete = TRUE]
                     ELSE IF d.is_complete /\ d.particles < particles
                       THEN [d EXCEPT !.is_complete = FALSE, !.paused = TRUE]
                     ELSE d
           IN  [d1 EXCEPT !.particles = particles]
      ELSE d

\* DlaGrid::handle_particles_changed
handle_particles_changed(d, particles) ==
    IF d.particles # particles
      THEN LET d1 == IF d.is_complete /\ d.particles < particles
                       THEN [d EXCEPT !.is_complete = FALSE, !.paused = TRUE]
                     ELSE IF d.stuck_particles = particles
                       THEN [d EXCEPT !.is_complete = TRUE]
                     ELSE d
           IN  [d1 EXCEPT !.particles = particles]
      ELSE d

\* handle_grid_type_selected asking for a resize and dropping the radius
handle_grid_type_selected_resizes(d, new_grid_type) ==
    {swap_grid_type([d EXCEPT !.do_resize = TRUE, !.spawn_radius = None],
                    g, new_grid_type) :
        g \in Grid_from(new_grid_type, d.grid.width, d.grid.height)}

\* DlaGrid::handle_grid_type_selected : the states the call may leave
handle_grid_type_selected(d, new_grid_type) ==
    {swap_grid_type(d, g, new_grid_type) :
        g \in Grid_from(new_grid_type, d.grid.width, d.grid.height)}

\* gui::PAUSE_BUTTON_TEXT, gui::UNPAUSE_BUTTON_TEXT
PAUSE_BUTTON_TEXT == "Stop"
UNPAUSE_BUTTON_TEXT == "Start"
RESET_BUTTON_TEXT == "Reset"

\* the desync test with the two labels exchanged
handle_pause_button_clicked_panics_swapped(d, text) ==
    text # (IF ~d.paused THEN UNPAUSE_BUTTON_TEXT ELSE PAUSE_BUTTON_TEXT)

\* DlaGrid::handle_pause_button_clicked : the desync panic
handle_pause_button_clicked_panics(d, text) ==
    text # (IF ~d.paused THEN PAUSE_BUTTON_TEXT ELSE UNPAUSE_BUTTON_TEXT)

\* DlaGrid::handle_pause_button_clicked
handle_pause_button_clicked(d, text) == [d EXCEPT !.paused = ~d.paused]

\* DlaGrid::handle_spawn_radius_changed
handle_spawn_radius_changed(d, new_radius) == [d EXCEPT !.spawn_radius = new_radius]

\* handle_reset comparing the widths only
handle_reset_width_only(d, width, height) ==
    LET changed == width # d.grid.width
        d1      == IF changed THEN [d EXCEPT !.do_resize = TRUE] ELSE d
        w       == IF changed THEN width ELSE d.grid.width
        h       == IF changed THEN height ELSE d.grid.height
    IN  {swap_grid_type(d1, g, d.grid_type) : g \in Grid_from(d.grid_type, w, h)}

\* DlaGrid::handle_reset : the states the call may leave
handle_reset(d, width, height) ==
    LET changed == width # d.grid.width \/ height # d.grid.height
        d1      == IF changed THEN [d EXCEPT !.do_resize = TRUE] ELSE d
        w       == IF changed THEN width ELSE d.grid.width
        h       == IF changed THEN height ELSE d.grid.height
    IN  {swap_grid_type(d1, g, d.grid_type) : g \in Grid_from(d.grid_type, w, h)}

\* a particle colour handler that also turns the theme off
handle_particle_color_changed_drops_theme(d, new_color) ==
    [d EXCEPT !.fill_color = new_color, !.theme = None]

\* DlaGrid::handle_particle_color_changed (swap_particle_color)
handle_particle_color_changed(d, new_color) == [d EXCEPT !.fill_color = new_color]

\* DlaGrid::handle_background_color_changed (swap_background_color)
handle_background_color_changed(d, new_color) == [d EXCEPT !.empty_color = new_color]

\* DlaGrid::handle_theme_changed
handle_theme_changed(d, new_theme) == [d EXCEPT !.theme = new_theme]

----------------------------------------------------------------------------
(* src/grid.rs : persistence.  bincode 1.x writes a struct as its fields in
   declared order, a Vec as a u64 length followed by the elements, a bool as
   one byte, a usize as a u64, every integer as 8 little-endian bytes.      *)

RECURSIVE LeBytes(_, _)
\* the k low bytes of n, least significant first
LeBytes(n, k) == IF k = 0 THEN <<>> ELSE <<n % 256>> \o LeBytes(n \div 256, k - 1)

RECURSIVE LeValue(_, _, _)
\* the integer whose k little-endian bytes start at b[o]
LeValue(b, o, k) == IF k = 0 THEN 0 ELSE b[o] + 256 * LeValue(b, o + 1, k - 1)

RECURSIVE ser_cells(_)
ser_cells(cells) ==
    IF cells = <<>> THEN <<>>
    ELSE <<IF Head(cells).filled THEN 1 ELSE 0>> \o LeBytes(Head(cells).id, 8)
         \o ser_cells(Tail(cells))

\* bincode::serialize(&Grid)
serialize(grid) ==
    LeBytes(Len(grid.cells), 8) \o ser_cells(grid.cells)
    \o LeBytes(grid.width, 8) \o LeBytes(grid.height, 8)

\* bincode::deserialize fails: the input ends early, or a bool is not 0 or 1
deserialize_fails(b) ==
    \/ Len(b) < 8
    \/ LET n == LeValue(b, 1, 8)
       IN  \/ Len(b) < 8 + 9 * n + 16
           \/ \E i \in 1..n : b[8 + 9 * (i - 1) + 1] \notin {0, 1}

\* deserialize that reads height before width
deserialize_swapped(b) ==
    LET n == LeValue(b, 1, 8)
    IN  [cells  |-> [i \in 1..n |->
                       [filled |-> b[8 + 9 * (i - 1) + 1] = 1,
                        id     |-> LeValue(b, 8 + 9 * (i - 1) + 2, 8)]],
         width  |-> LeValue(b, 8 + 9 * n + 9, 8),
         height |-> LeValue(b, 8 + 9 * n + 1, 8)]

\* bincode::deserialize::<Grid>
deserialize(b) ==
    LET n == LeValue(b, 1, 8)
    IN  [cells  |-> [i \in 1..n |->
                       [filled |-> b[8 + 9 * (i - 1) + 1] = 1,
                        id     |-> LeValue(b, 8 + 9 * (i - 1) + 2, 8)]],
         width  |-> LeValue(b, 8 + 9 * n + 1, 8),
         height |-> LeValue(b, 8 + 9 * n + 9, 8)]

\* the gzip container, reduced to its magic number and the stored payload
GzMagic == <<31, 139>>
Gz(b) == GzMagic \o b
IsGz(b) == Len(b) >= 2 /\ SubSeq(b, 1, 2) = GzMagic
UnGz(b) == SubSeq(b, 3, Len(b))

\* file_name + ".gz" and file_name.strip_suffix(".gz")
AddGz(p) == [p EXCEPT !.gz = @ + 1]
StripGz(p) == [p EXCEPT !.gz = @ - 1]
EndsWithGz(p) == p.gz > 0
Exists(files, p) == files[p] # NoFile

\* Grid::compress : `gzip file_name --best`.  gzip leaves a file alone that
\* already has the suffix, that is missing, or whose .gz already exists;
\* otherwise it writes file_name.gz and removes file_name.
compress(files, p) ==
    IF EndsWithGz(p) \/ ~Exists(files, p) \/ Exists(files, AddGz(p))
      THEN [fs |-> files, ok |-> FALSE]
      ELSE [fs |-> [files EXCEPT ![AddGz(p)] = Gz(files[p]), ![p] = NoFile],
            ok |-> TRUE]

\* Grid::decompress : `gzip file_name --decompress --keep`.  ok is FALSE
\* when gzip wrote a diagnostic to stderr.
decompress(files, p) ==
    IF ~Exists(files, p) \/ ~IsGz(files[p]) \/ Exists(files, StripGz(p))
      THEN [fs |-> files, ok |-> FALSE]
      ELSE [fs |-> [files EXCEPT ![StripGz(p)] = UnGz(files[p])], ok |-> TRUE]

\* Grid::to_file ; write_ok is the result of fs::write
to_file(files, grid, p, write_ok) ==
    LET written == IF write_ok THEN [files EXCEPT ![p] = serialize(grid)] ELSE files
    IN  compress(written, p)

\* Grid::from_file : grid is None or Some(grid); panic is the unwrap of a
\* failed deserialize
from_file(files, p) ==
    LET dec       == IF EndsWithGz(p) THEN decompress(files, p)
                                      ELSE [fs |-> files, ok |-> TRUE]
        file_name == IF EndsWithGz(p) THEN StripGz(p) ELSE p
        removed   == IF EndsWithGz(p) THEN [dec.fs EXCEPT ![file_name] = NoFile]
                                      ELSE dec.fs
    IN  IF ~dec.ok
          THEN [fs |-> files, grid |-> None, panic |-> "none"]
        ELSE IF ~Exists(dec.fs, file_name)
          THEN [fs |-> dec.fs, grid |-> None, panic |-> "none"]
        ELSE IF deserialize_fails(dec.fs[file_name])
          THEN [fs |-> removed, grid |-> None, panic |-> "deserialize"]
        ELSE [fs |-> removed, grid |-> Some(deserialize(dec.fs[file_name])),
              panic |-> "none"]

\* the save handler without its overwrite check
handle_save_button_clicked_overwrites(d, files, save_file, write_ok) ==
    to_file(files, d.grid, save_file, write_ok).fs

\* DlaGrid::handle_save_button_clicked : the file system the call leaves
handle_save_button_clicked(d, files, save_file, write_ok) ==
    IF Exists(files, AddGz(save_file))
      THEN files
      ELSE to_file(files, d.grid, save_file, write_ok).fs

\* the load handler reading old_size after it has replaced the grid
handle_from_button_clicked_late_size(d, maybe_grid) ==
    IF maybe_grid = None THEN d
    ELSE
    LET d1 == [d EXCEPT !.grid = maybe_grid[1]]
        d2 == [d1 EXCEPT !.stuck_particles = Grid_stuck_particles(d1.grid)]
    IN  [d2 EXCEPT !.particles = d2.stuck_particles, !.is_complete = TRUE]

\* DlaGrid::handle_from_button_clicked, given the grid from_file returned
handle_from_button_clicked(d, maybe_grid) ==
    IF maybe_grid = None THEN d
    ELSE
    LET old_size == d.grid.width
        d1 == [d EXCEPT !.grid = maybe_grid[1]]
        d2 == [d1 EXCEPT !.stuck_particles = Grid_stuck_particles(d1.grid)]
        d3 == [d2 EXCEPT !.particles = d2.stuck_particles, !.is_complete = TRUE]
    IN  IF old_size # d3.grid.width THEN [d3 EXCEPT !.do_resize = TRUE] ELSE d3

----------------------------------------------------------------------------
(* The engine and its handlers.  A consumer's call is one statement,
   `self.arc.lock().unwrap().handle_*(..)`: it takes the Mutex, runs the
   handler and drops the guard at the end of the statement. *)

\* the operation that acted last and its outcome; arg is the argument a
\* handler was called with
Ev(op, out) == [op |-> op, out |-> out, arg |-> None]
EvArg(op, out, arg) == [op |-> op, out |-> out, arg |-> Some(arg)]

NoFiles == [p \in Paths |-> NoFile]
\* the paths the save / load handlers are given
HandlerPaths == {p \in Paths : p.gz <= 1}

\* what the worker saw when it took the Mutex, and the calls of update it
\* has made since
NoHold == [paused |-> FALSE, is_complete |-> FALSE, steps |-> 0]

\* DlaGrid::from(config): paused, not complete, no active particle
InitDla ==
    \E size \in Sizes, kind \in Kinds, particles \in 0..MaxParticles :
        /\ ~Grid_from_panics(kind, size[1], size[2])
        /\ \E g \in Grid_from(kind, size[1], size[2]) :
              dla = DlaGrid_from(g, kind, particles)

\* no worker thread; the consumer is inside Gui::ui
InitRest ==
    /\ failure = "none"
    /\ ev = Ev("init", "ok")
    /\ fs = NoFiles
    /\ lock = "none"
    /\ wpc = "off"
    /\ wi = 0
    /\ gpc = "ui"
    /\ hold = NoHold
    /\ loaded = None

Init == InitDla /\ InitRest

Running == failure = "none"

\* Mutex::lock returns when no other thread holds the guard
can_lock_always(l) == TRUE

can_lock(l) == l = "none"

\* a handler call of Gui::ui
UiCall == Running /\ gpc = "ui" /\ can_lock(lock)

\* DlaGrid::update
Step ==
    /\ Running
    /\ wpc = "off"
    /\ dla.is_complete \/ dla.updates < MaxUpdates
    /\ \E o \in update(dla) :
          /\ dla' = o.d
          /\ failure' = o.panic
          /\ ev' = Ev("update", o.ev)
    /\ UNCHANGED <<fs, lock, wpc, wi, gpc, hold, loaded>>

ParticlesChanged(targets) ==
    /\ UiCall
    /\ \E n \in targets :
          IF handle_particles_changed_panics(dla)
            THEN /\ failure' = "assert"
                 /\ ev' = EvArg("particles_changed", "panic", n)
                 /\ UNCHANGED dla
            ELSE /\ dla' = handle_particles_changed(dla, n)
                 /\ ev' = EvArg("particles_changed", "ok", n)
                 /\ UNCHANGED failure
    /\ UNCHANGED <<fs, lock, wpc, wi, gpc, hold, loaded>>

GridTypeSelected(kinds) ==
    /\ UiCall
    /\ \E k \in kinds :
          IF Grid_from_panics(k, dla.grid.width, dla.grid.height)
            THEN /\ failure' = "grid_from"
                 /\ ev' = EvArg("grid_type_selected", "panic", k)
                 /\ UNCHANGED dla
            ELSE /\ dla' \in handle_grid_type_selected(dla, k)
                 /\ ev' = EvArg("grid_type_selected", "ok", k)
                 /\ UNCHANGED failure
    /\ UNCHANGED <<fs, lock, wpc, wi, gpc, hold, loaded>>

PauseClicked(texts) ==
    /\ UiCall
    /\ \E text \in texts :
          IF handle_pause_button_clicked_panics(dla, text)
            THEN /\ failure' = "desync"
                 /\ ev' = EvArg("pause_clicked", "panic", text)
                 /\ UNCHANGED dla
            ELSE /\ dla' = handle_pause_button_clicked(dla, text)
                 /\ ev' = EvArg("pause_clicked", "ok", text)
                 /\ UNCHANGED failure
    /\ UNCHANGED <<fs, lock, wpc, wi, gpc, hold, loaded>>

SpawnRadiusChanged(radii) ==
    /\ UiCall
    /\ \E r \in radii : dla' = handle_spawn_radius_changed(dla, r)
    /\ ev' = Ev("spawn_radius_changed", "ok")
    /\ UNCHANGED <<failure, fs, lock, wpc, wi, gpc, hold, loaded>>

Reset(sizes) ==
    /\ UiCall
    /\ \E size \in sizes :
          IF Grid_from_panics(dla.grid_type, size[1], size[2])
            THEN /\ failure' = "grid_from"
                 /\ ev' = EvArg("reset", "panic", size)
                 /\ dla' = IF size # <<dla.grid.width, dla.grid.height>>
                              THEN [dla EXCEPT !.do_resize = TRUE] ELSE dla
            ELSE /\ dla' \in handle_reset(dla, size[1], size[2])
                 /\ ev' = EvArg("reset", "ok", size)
                 /\ UNCHANGED failure
    /\ UNCHANGED <<fs, lock, wpc, wi, gpc, hold, loaded>>

ParticleColorChanged(colors) ==
    /\ UiCall
    /\ \E c \in colors : dla' = handle_particle_color_changed(dla, c)
    /\ ev' = Ev("particle_color_changed", "ok")
    /\ UNCHANGED <<failure, fs, lock, wpc, wi, gpc, hold, loaded>>

BackgroundColorChanged(colors) ==
    /\ UiCall
    /\ \E c \in colors : dla' = handle_background_color_changed(dla, c)
    /\ ev' = Ev("background_color_changed", "ok")
    /\ UNCHANGED <<failure, fs, lock, wpc, wi, gpc, hold, loaded>>

ThemeChanged(themes) ==
    /\ UiCall
    /\ \E t \in themes : dla' = handle_theme_changed(dla, t)
    /\ ev' = Ev("theme_changed", "ok")
    /\ UNCHANGED <<failure, fs, lock, wpc, wi, gpc, hold, loaded>>

SaveClicked(p, write_ok) ==
    /\ UiCall
    /\ fs' = handle_save_button_clicked(dla, fs, p, write_ok)
    /\ ev' = EvArg("save_clicked", "ok", p)
    /\ UNCHANGED <<dla, failure, lock, wpc, wi, gpc, hold, loaded>>

FromClicked(p) ==
    /\ UiCall
    /\ LET r == from_file(fs, p)
       IN  /\ fs' = r.fs
           /\ failure' = r.panic
           /\ dla' = IF r.panic = "none"
                        THEN handle_from_button_clicked(dla, r.grid) ELSE dla
           /\ ev' = EvArg("from_clicked",
                          IF r.panic # "none" THEN "panic"
                          ELSE IF r.grid = None THEN "none" ELSE "loaded", p)
    /\ UNCHANGED <<lock, wpc, wi, gpc, hold, loaded>>

Next ==
    \/ Step
    \/ ParticlesChanged(0..MaxParticles)
    \/ GridTypeSelected(Kinds)
    \/ PauseClicked({PAUSE_BUTTON_TEXT, UNPAUSE_BUTTON_TEXT})
    \/ SpawnRadiusChanged({None} \cup {Some(v) : v \in 0..MaxRadius})
    \/ Reset(Sizes)

Spec == Init /\ [][Next]_vars

----------------------------------------------------------------------------
(* The engine with the save and load handlers: one grid size, the seeds with
   a filled edge, and the handlers that lead from a loaded grid back to a
   running simulation *)

FileSize == <<2, 3>>
FileKinds == {"BottomEdge", "AllEdges"}
FileSavePaths == {p \in HandlerPaths : p.gz = 0}

InitFiles ==
    /\ \E kind \in FileKinds :
          \E g \in Grid_from(kind, FileSize[1], FileSize[2]) :
              dla = DlaGrid_from(g, kind, Grid_stuck_particles(g) + 1)
    /\ InitRest

NextFiles ==
    \/ Step
    \/ \E p \in FileSavePaths : SaveClicked(p, TRUE)
    \/ \E p \in HandlerPaths : FromClicked(p)
    \/ GridTypeSelected(FileKinds)
    \/ ParticlesChanged({dla.stuck_particles + 1})

SpecFiles == InitFiles /\ [][NextFiles]_vars

----------------------------------------------------------------------------
(* The worker thread of spawn_worker_thread beside the consumer of the event
   loop (RedrawRequested, then Gui::ui and its handler calls).  A call of
   update by the worker is two steps, update_move and update_stick, so that
   the states in the middle of a call are states of the model.  The load
   handler is given what Grid::from_file returned; the files themselves are
   not part of this specification. *)

\* `for _ in 0..10`
BatchSize == 10

ConcSizes == {<<2, 3>>, <<3, 2>>}
ConcKinds == {"BottomEdge"}
\* the colour handlers are handed the colours already selected
ConcParticleColors == {"Seafoam"}
ConcBackgroundColors == {"Black"}
ConcThemes == {None}
ConcRadii == {Some(0)}
\* the grids the load handler is handed
ConcLoads == {None} \cup {Some(g) : g \in Grid_from("AllEdges", 3, 2)}

\* `if !guard_data.paused && !guard_data.is_complete` with || for &&
worker_runs_either(d) == ~d.paused \/ ~d.is_complete

\* `if !guard_data.paused && !guard_data.is_complete`
worker_runs(d) == ~d.paused /\ ~d.is_complete

InitConc ==
    /\ \E size \in ConcSizes, kind \in ConcKinds :
          \E g \in Grid_from(kind, size[1], size[2]) :
              dla = DlaGrid_from(g, kind, Grid_stuck_particles(g) + 1)
    /\ failure = "none"
    /\ ev = Ev("init", "ok")
    /\ fs = NoFiles
    /\ lock = "none"
    /\ wpc = "lock"
    /\ wi = 0
    /\ gpc = "idle"
    /\ hold = NoHold
    /\ loaded = None

\* `let mut guard_data = run_thread_grid.lock().unwrap()`
WorkerLock ==
    /\ Running
    /\ wpc = "lock"
    /\ can_lock(lock)
    /\ lock' = "worker"
    /\ wpc' = "check"
    /\ hold' = [paused |-> dla.paused, is_complete |-> dla.is_complete, steps |-> 0]
    /\ ev' = Ev("worker", "lock")
    /\ UNCHANGED <<dla, failure, fs, wi, gpc, loaded>>

\* the test of paused and is_complete, and the entry of the for loop
WorkerCheck ==
    /\ Running
    /\ wpc = "check"
    /\ IF worker_runs(dla)
         THEN wpc' = "update" /\ wi' = 0 /\ ev' = Ev("worker", "batch")
         ELSE wpc' = "drop_sleep" /\ wi' = wi /\ ev' = Ev("worker", "idle")
    /\ UNCHANGED <<dla, failure, fs, lock, gpc, hold, loaded>>

\* the worker is between lines 275 and 277 of a call of update: wpc is how
\* the particle got its position
MidUpdate == {"walk", "spawn", "exhaust"}

\* the loop index after a call of update has returned
NextIteration ==
    /\ wi' = wi + 1
    /\ wpc' = IF wi + 1 < BatchSize THEN "update" ELSE "drop"

\* guard_data.update(), lines 255-275
WorkerMove ==
    /\ Running
    /\ wpc = "update"
    /\ dla.is_complete \/ dla.updates < MaxUpdates + BatchSize
    /\ hold' = [hold EXCEPT !.steps = @ + 1]
    /\ \E o \in update_move(dla) :
          /\ dla' = o.d
          /\ failure' = o.panic
          /\ CASE o.ev = "noop"  -> ev' = Ev("update", "noop") /\ NextIteration
               [] o.ev = "panic" -> ev' = Ev("update", "panic") /\ UNCHANGED <<wpc, wi>>
               [] OTHER          -> ev' = Ev("update_move", o.ev) /\ wpc' = o.ev
                                    /\ UNCHANGED wi
    /\ UNCHANGED <<fs, lock, gpc, loaded>>

\* guard_data.update(), lines 277-293
WorkerStick ==
    /\ Running
    /\ wpc \in MidUpdate
    /\ IF update_stick_panics(dla)
         THEN /\ failure' = "index" /\ ev' = Ev("update", "panic")
              /\ UNCHANGED <<dla, wpc, wi>>
         ELSE /\ dla' = update_stick(dla)
              /\ ev' = Ev("update", Tag(wpc, should_stick(dla, dla.cur_part.pos[1],
                                                             dla.cur_part.pos[2])))
              /\ NextIteration
              /\ UNCHANGED failure
    /\ UNCHANGED <<fs, lock, gpc, hold, loaded>>

\* std::mem::drop(guard_data), after the batch or before the sleep
WorkerDrop ==
    /\ Running
    /\ wpc \in {"drop", "drop_sleep"}
    /\ lock' = "none"
    /\ wpc' = IF wpc = "drop" THEN "lock" ELSE "sleep"
    /\ hold' = NoHold
    /\ ev' = Ev("worker", "drop")
    /\ UNCHANGED <<dla, failure, fs, wi, gpc, loaded>>

\* thread::sleep(100 ms) returns
WorkerWake ==
    /\ Running
    /\ wpc = "sleep"
    /\ wpc' = "lock"
    /\ ev' = Ev("worker", "wake")
    /\ UNCHANGED <<dla, failure, fs, lock, wi, gpc, hold, loaded>>

\* a redraw that never takes the resize branch
need_resize_never(d) == FALSE

\* RedrawRequested: `let need_resize = guard_grid.do_resize()`
need_resize(d) == d.do_resize

\* RedrawRequested: do_resize() read under the Mutex
RedrawRead ==
    /\ Running
    /\ gpc = "idle"
    /\ can_lock(lock)
    /\ gpc' = IF need_resize(dla) THEN "resize" ELSE "draw"
    /\ ev' = Ev("redraw", "do_resize")
    /\ UNCHANGED <<dla, failure, fs, lock, wpc, wi, hold, loaded>>

\* RedrawRequested: set_do_resize(false) and size() in a second lock hold;
\* the event records the dimensions size() returned
RedrawResize ==
    /\ Running
    /\ gpc = "resize"
    /\ can_lock(lock)
    /\ dla' = [dla EXCEPT !.do_resize = FALSE]
    /\ gpc' = "idle"
    /\ ev' = EvArg("redraw", "resize", <<dla.grid.width, dla.grid.height>>)
    /\ UNCHANGED <<failure, fs, lock, wpc, wi, hold, loaded>>

\* RedrawRequested: draw() under the Mutex
RedrawDraw ==
    /\ Running
    /\ gpc = "draw"
    /\ can_lock(lock)
    /\ gpc' = "prepare"
    /\ ev' = Ev("redraw", "draw")
    /\ UNCHANGED <<dla, failure, fs, lock, wpc, wi, hold, loaded>>

\* Gui::ui: the snapshot of paused, stuck_particles, complete, grid_type, size
UiRead ==
    /\ Running
    /\ gpc = "prepare"
    /\ can_lock(lock)
    /\ gpc' = "ui"
    /\ ev' = Ev("ui", "snapshot")
    /\ UNCHANGED <<dla, failure, fs, lock, wpc, wi, hold, loaded>>

\* Gui::ui returns
UiDone ==
    /\ Running
    /\ gpc = "ui"
    /\ gpc' = "idle"
    /\ ev' = Ev("ui", "done")
    /\ UNCHANGED <<dla, failure, fs, lock, wpc, wi, hold, loaded>>

\* handle_from_button_clicked, given what Grid::from_file returned
Loaded(grids) ==
    /\ UiCall
    /\ \E g \in grids :
          /\ dla' = handle_from_button_clicked(dla, g)
          /\ ev' = Ev("from_clicked", IF g = None THEN "none" ELSE "loaded")
    /\ UNCHANGED <<failure, fs, lock, wpc, wi, gpc, hold, loaded>>

NextConc ==
    \/ WorkerLock
    \/ WorkerCheck
    \/ WorkerMove
    \/ WorkerStick
    \/ WorkerDrop
    \/ WorkerWake
    \/ RedrawRead
    \/ RedrawResize
    \/ RedrawDraw
    \/ UiRead
    \/ UiDone
    \/ ParticlesChanged({MaxParticles - 1})
    \/ GridTypeSelected(ConcKinds)
    \/ PauseClicked({IF dla.paused THEN UNPAUSE_BUTTON_TEXT ELSE PAUSE_BUTTON_TEXT})
    \/ SpawnRadiusChanged(ConcRadii)
    \/ Reset(ConcSizes)
    \/ ParticleColorChanged(ConcParticleColors)
    \/ BackgroundColorChanged(ConcBackgroundColors)
    \/ ThemeChanged(ConcThemes)
    \/ Loaded(ConcLoads)

SpecConc == InitConc /\ [][NextConc]_vars

----------------------------------------------------------------------------
(* Grid::to_file and Grid::from_file on their own: a grid is written to a
   path of a file system that may hold files left by earlier runs, then a
   path is read back.  `loaded` records the exchange. *)

\* the dimensions and the ids of the grids handed to to_file; 300 is an id
\* that takes two bytes
CodecSizes == {<<1, 2>>, <<2, 1>>}
CodecIds == (0..MaxId) \cup {300}
CodecGrids ==
    {[cells |-> c, width |-> size[1], height |-> size[2]] :
        size \in CodecSizes,
        c \in [1..2 -> {Particle(f, i) : f \in BOOLEAN, i \in CodecIds}]}

\* a grid saved by an earlier run
StaleGrid == CHOOSE g \in Grid_from("BottomEdge", 1, 2) : TRUE

\* the file systems to_file starts from: empty, a stale uncompressed file, a
\* stale compressed file
CodecFiles ==
    {NoFiles,
     [NoFiles EXCEPT ![[base |-> "a", gz |-> 0]] = serialize(StaleGrid)],
     [NoFiles EXCEPT ![[base |-> "a", gz |-> 1]] = Gz(serialize(StaleGrid))]}

InitCodec ==
    /\ dla = DlaGrid_from(StaleGrid, "BottomEdge", 0)
    /\ failure = "none"
    /\ ev = Ev("init", "ok")
    /\ fs \in CodecFiles
    /\ lock = "none"
    /\ wpc = "off"
    /\ wi = 0
    /\ gpc = "ui"
    /\ hold = NoHold
    /\ loaded = [op |-> "none", grid |-> StaleGrid, path |-> [base |-> "a", gz |-> 0],
                 produced |-> FALSE, from |-> [base |-> "a", gz |-> 0], result |-> None]

\* Grid::to_file(grid, p); produced: fs::write succeeded and gzip wrote p.gz
CodecSave(grid, p, write_ok) ==
    /\ Running
    /\ loaded.op = "none"
    /\ LET r == to_file(fs, grid, p, write_ok)
       IN  /\ fs' = r.fs
           /\ loaded' = [loaded EXCEPT !.op = "save", !.grid = grid, !.path = p,
                                       !.produced = write_ok /\ r.ok]
    /\ ev' = Ev("to_file", "ok")
    /\ UNCHANGED <<dla, failure, lock, wpc, wi, gpc, hold>>

\* Grid::from_file(q)
CodecLoad(q) ==
    /\ Running
    /\ loaded.op = "save"
    /\ LET r == from_file(fs, q)
       IN  /\ fs' = r.fs
           /\ failure' = r.panic
           /\ loaded' = [loaded EXCEPT !.op = "load", !.from = q, !.result = r.grid]
           /\ ev' = Ev("from_file", IF r.panic # "none" THEN "panic"
                                     ELSE IF r.grid = None THEN "none" ELSE "loaded")
    /\ UNCHANGED <<dla, lock, wpc, wi, gpc, hold>>

NextCodec ==
    \/ \E grid \in CodecGrids, p \in HandlerPaths, write_ok \in BOOLEAN :
          CodecSave(grid, p, write_ok)
    \/ \E q \in Paths : CodecLoad(q)

SpecCodec == InitCodec /\ [][NextCodec]_vars

----------------------------------------------------------------------------
(* The save and load handlers over a file system that holds files this
   program did not write: the operator may name any file in the load box *)

LoadSizes == {<<1, 2>>, <<2, 1>>, <<1, 3>>}
LoadKinds == {"BottomEdge"}

\* the bytes of a file that is not a serialized Grid: a short text, and a
\* saved grid whose first `filled` byte is neither 0 nor 1
NotAGrid == {<<104, 105>>, [serialize(StaleGrid) EXCEPT ![9] = 2]}

\* the file systems the handlers start from: empty; a saved grid; a file
\* that does not decode, plain or compressed; a .gz name that gzip rejects
LoadFiles ==
    {NoFiles,
     [NoFiles EXCEPT ![[base |-> "a", gz |-> 1]] = Gz(serialize(StaleGrid))]}
    \cup {[NoFiles EXCEPT ![[base |-> "a", gz |-> 0]] = b] : b \in NotAGrid}
    \cup {[NoFiles EXCEPT ![[base |-> "a", gz |-> 1]] = Gz(b)] : b \in NotAGrid}
    \cup {[NoFiles EXCEPT ![[base |-> "a", gz |-> 1]] = b] : b \in NotAGrid}

InitLoad ==
    /\ \E size \in LoadSizes, kind \in LoadKinds :
          \E g \in Grid_from(kind, size[1], size[2]) :
              dla = DlaGrid_from(g, kind, Grid_stuck_particles(g) + 1)
    /\ failure = "none"
    /\ ev = Ev("init", "ok")
    /\ fs \in LoadFiles
    /\ lock = "none"
    /\ wpc = "off"
    /\ wi = 0
    /\ gpc = "ui"
    /\ hold = NoHold
    /\ loaded = None

NextLoad ==
    \/ Step
    \/ \E p \in HandlerPaths, write_ok \in BOOLEAN : SaveClicked(p, write_ok)
    \/ \E p \in HandlerPaths : FromClicked(p)
    \/ Reset(LoadSizes)
    \/ PauseClicked({PAUSE_BUTTON_TEXT, UNPAUSE_BUTTON_TEXT, RESET_BUTTON_TEXT})

SpecLoad == InitLoad /\ [][NextLoad]_vars

----------------------------------------------------------------------------
(* The handlers of the control panel on small grids, with every field a
   handler may touch taking more than one value *)

PanelSizes == {<<1, 2>>, <<2, 1>>, <<2, 2>>}
PanelKinds == {"Center", "BottomEdge"}
PanelParticleColors == {"Seafoam", "Red"}
PanelBackgroundColors == {"Black", "White"}
PanelThemes == {None, Some("Seafoam")}

InitPanel ==
    /\ \E size \in PanelSizes, kind \in PanelKinds :
          /\ ~Grid_from_panics(kind, size[1], size[2])
          /\ \E g \in Grid_from(kind, size[1], size[2]) :
                dla = DlaGrid_from(g, kind, Grid_stuck_particles(g) + 1)
    /\ InitRest

NextPanel ==
    \/ Step
    \/ ParticlesChanged({dla.stuck_particles, dla.stuck_particles + 1})
    \/ GridTypeSelected(PanelKinds)
    \/ PauseClicked({IF dla.paused THEN UNPAUSE_BUTTON_TEXT ELSE PAUSE_BUTTON_TEXT})
    \/ SpawnRadiusChanged({None, Some(MaxRadius)})
    \/ Reset(PanelSizes)
    \/ ParticleColorChanged(PanelParticleColors)
    \/ BackgroundColorChanged(PanelBackgroundColors)
    \/ ThemeChanged(PanelThemes)

SpecPanel == InitPanel /\ [][NextPanel]_vars

----------------------------------------------------------------------------
(* One call of update that spawns, with the retry loop of random_loc taken
   draw by draw: wi is `attempt`, the number of rejected draws so far.  The
   caller holds the Mutex from the call to the return. *)

MAX_RETRIES == 1000
SpawnSizes == {<<1, 2>>, <<2, 2>>, <<4, 4>>}
SpawnKinds == {"Center", "AllEdges"}
SpawnRadii == {None, Some(0), Some(MaxRadius)}

\* `attempt >= MAX_RETRIES` one draw late
retries_exhausted_late(attempt) == attempt > MAX_RETRIES

\* random_loc : `attempt >= MAX_RETRIES`, tested after `attempt += 1`
retries_exhausted(attempt) == attempt >= MAX_RETRIES

InitSpawn ==
    /\ \E size \in SpawnSizes, kind \in SpawnKinds :
          \E g \in Grid_from(kind, size[1], size[2]) :
              dla = DlaGrid_from(g, kind, Grid_stuck_particles(g) + 1)
    /\ InitRest

\* update, lines 255-273: not complete, no active particle, random_loc called
SpawnCall ==
    /\ Running
    /\ wpc = "off"
    /\ can_lock(lock)
    /\ ~dla.is_complete
    /\ ~dla.cur_part.exists
    /\ dla.updates < MaxUpdates
    /\ dla' = [dla EXCEPT !.updates = @ + 1]
    /\ lock' = "worker"
    /\ wpc' = "random_loc"
    /\ wi' = 0
    /\ ev' = Ev("update", "random_loc")
    /\ UNCHANGED <<failure, fs, gpc, hold, loaded>>

\* one turn of the loop of random_loc: a draw, returned when it is valid;
\* else the attempt is counted, and the draw is returned with is_complete
\* set when the count has reached MAX_RETRIES
SpawnDraw ==
    /\ wpc = "random_loc"
    /\ \E randx \in 0..(dla.grid.width - 1), randy \in 0..(dla.grid.height - 1) :
          IF valid_spawn(dla, randx, randy)
            THEN /\ dla' = [dla EXCEPT
                              !.cur_part = [exists |-> TRUE, pos |-> <<randx, randy>>]]
                 /\ wpc' = "spawn"
                 /\ ev' = Ev("random_loc", "found")
                 /\ UNCHANGED wi
            ELSE /\ wi' = wi + 1
                 /\ IF retries_exhausted(wi + 1)
                      THEN /\ dla' = [dla EXCEPT
                                        !.is_complete = TRUE,
                                        !.cur_part = [exists |-> TRUE,
                                                      pos |-> <<randx, randy>>]]
                           /\ wpc' = "exhaust"
                           /\ ev' = Ev("random_loc", "exhausted")
                      ELSE /\ ev' = Ev("random_loc", "retry")
                           /\ UNCHANGED <<dla, wpc>>
    /\ UNCHANGED <<failure, fs, lock, gpc, hold, loaded>>

\* update, lines 277-293, and the return to the caller
SpawnStick ==
    /\ wpc \in {"spawn", "exhaust"}
    /\ dla' = update_stick(dla)
    /\ ev' = Ev("update", Tag(wpc, should_stick(dla, dla.cur_part.pos[1],
                                                dla.cur_part.pos[2])))
    /\ wpc' = "off"
    /\ lock' = "none"
    /\ UNCHANGED <<failure, fs, wi, gpc, hold, loaded>>

NextSpawn ==
    \/ SpawnCall
    \/ SpawnDraw
    \/ SpawnStick
    \/ SpawnRadiusChanged(SpawnRadii)

SpecSpawn == InitSpawn /\ [][NextSpawn]_vars

\* the thread inside update keeps running
SpecSpawnFair == SpecSpawn /\ WF_vars(SpawnDraw) /\ WF_vars(SpawnStick)

----------------------------------------------------------------------------
(* Grid::from on its own: a seed kind and two dimensions are chosen and the
   grid is built.  `loaded` holds the arguments and what the call returned. *)

MaxSide == 9
MaxRandSide == 2
SeedArgs ==
    ((GridType \ {"RandFive"}) \X (1..MaxSide) \X (1..MaxSide))
    \cup ({"RandFive"} \X (1..MaxRandSide) \X (1..MaxRandSide))

InitSeed ==
    /\ dla = DlaGrid_from(StaleGrid, "BottomEdge", 0)
    /\ failure = "none"
    /\ ev = Ev("init", "ok")
    /\ fs = NoFiles
    /\ lock = "none"
    /\ wpc = "off"
    /\ wi = 0
    /\ gpc = "ui"
    /\ hold = NoHold
    /\ \E a \in SeedArgs :
          loaded = [grid_type |-> a[1], width |-> a[2], height |-> a[3],
                    built |-> None]

\* Grid::from(grid_type, width, height)
Build ==
    /\ Running
    /\ ev.op = "init"
    /\ IF Grid_from_panics(loaded.grid_type, loaded.width, loaded.height)
         THEN /\ failure' = "grid_from"
              /\ ev' = Ev("Grid::from", "panic")
              /\ UNCHANGED loaded
         ELSE /\ \E g \in Grid_from(loaded.grid_type, loaded.width, loaded.height) :
                    loaded' = [loaded EXCEPT !.built = Some(g)]
              /\ ev' = Ev("Grid::from", "ok")
              /\ UNCHANGED failure
    /\ UNCHANGED <<dla, fs, lock, wpc, wi, gpc, hold>>

NextSeed == Build

SpecSeed == InitSeed /\ [][NextSeed]_vars

----------------------------------------------------------------------------
(* Properties of the engine and its handlers *)

FilledIdxs(d) == {i \in 0..(Len(d.grid.cells) - 1) : d.grid.cells[i + 1].filled}
InBounds(grid, pos) ==
    pos[1] >= 0 /\ pos[1] < grid.width /\ pos[2] >= 0 /\ pos[2] < grid.height
StepOuts == {"walk_stick", "walk_free", "spawn_stick", "spawn_free",
             "exhaust_stick", "exhaust_free"}
\* the last operation was a call of update that did not return early
Stepped == ev.op = "update" /\ ev.out \in StepOuts
TargetMet(d) == d.is_complete => d.stuck_particles >= d.particles

\* C1: stuck_count equals the number of filled cells, not counting the
\* active particle's cell when an active particle exists.
C1_FillStuckConsistency ==
    Running =>
        dla.stuck_particles =
            Cardinality(IF dla.cur_part.exists
                          THEN FilledIdxs(dla)
                               \ {get_idx(dla, dla.cur_part.pos[1], dla.cur_part.pos[2])}
                          ELSE FilledIdxs(dla))

\* C2, as claimed: is_complete implies stuck_count >= target_count in every
\* reachable state.
C2_CompleteImpliesTarget == Running => TargetMet(dla)

\* C2, amended: every operation other than a step whose spawn exhausts the
\* retry limit keeps "is_complete implies stuck_count >= target_count" true.
C2_TargetMetPreserved ==
    [][(TargetMet(dla) /\ ~(ev'.op = "update" /\ ev'.out \in {"exhaust_stick", "exhaust_free"}))
        => TargetMet(dla')]_vars

\* a step made the simulation complete by reaching the target
C2_Witness ==
    /\ ev = Ev("update", "walk_stick")
    /\ dla.is_complete
    /\ dla.stuck_particles = dla.particles

\* C3: after a step has returned, is_complete and an existing active
\* particle are never both true.
C3_CompleteClearsActive ==
    (Running /\ Stepped) => ~(dla.is_complete /\ dla.cur_part.exists)

\* C4: is_complete and is_paused are never both true.
C4_CompleteXorPaused == Running => ~(dla.is_complete /\ dla.paused)

\* C5: whenever an active particle exists and the simulation is not
\* complete, the particle has an in-bounds unfilled neighbour, so the panic
\* of random_walk is unreachable.
C5_WalkerHasNeighbor ==
    /\ failure # "no_neighbors"
    /\ (Running /\ dla.cur_part.exists /\ ~dla.is_complete)
          => \E n \in get_neighbors(dla.cur_part.pos[1], dla.cur_part.pos[2]) :
                /\ InBounds(dla.grid, n)
                /\ ~dla.grid.cells[Grid_get_idx(dla.grid.width, n[1], n[2]) + 1].filled

\* C6: update called when is_complete is true changes nothing.
C6_UpdateWhenCompleteIsNoop ==
    [][(dla.is_complete /\ ev'.op = "update")
        => (dla' = dla /\ failure' = failure /\ fs' = fs)]_vars

\* update was called on a complete simulation
C6_Witness == ev = Ev("update", "noop") /\ dla.is_complete /\ Running

\* C7: every position a spawn or a walk step assigns to the active particle
\* is inside the grid, the position of an exhausted spawn included.
C7_AssignedPositionInBounds ==
    [][(ev'.op = "update" /\ ev'.out \in StepOuts /\ dla'.updates = dla.updates + 1)
        => InBounds(dla'.grid, dla'.cur_part.pos)]_vars

\* a spawn that exhausted its retries left a walking particle on the grid
C7_Witness ==
    /\ ev = Ev("update", "exhaust_free")
    /\ dla.cur_part.exists
    /\ InBounds(dla.grid, dla.cur_part.pos)

----------------------------------------------------------------------------
(* Properties of the worker thread and the consumer *)

\* the worker is between its lock() and its drop()
WorkerHolds == wpc \in {"check", "update", "drop", "drop_sleep"} \cup MidUpdate
\* the operations of the worker thread
WorkerOps == {"worker", "update", "update_move"}
\* the operations of the consumer that take the Mutex
ConsumerOps == {"particles_changed", "grid_type_selected", "pause_clicked",
                "spawn_radius_changed", "reset", "particle_color_changed",
                "background_color_changed", "theme_changed", "from_clicked",
                "save_clicked", "redraw", "ui"}

\* C8: the worker calls update only in a lock hold that began with paused
\* and is_complete both false, at most BatchSize times per lock hold; and
\* while paused is true no step of the worker changes a cell, the active
\* particle, stuck_particles or updates.
C8_WorkerBatch ==
    [][/\ (ev'.op \in {"update", "update_move"})
            => /\ lock = "worker"
               /\ ~hold.paused /\ ~hold.is_complete
               /\ hold'.steps <= BatchSize
       /\ (ev'.op \in WorkerOps /\ dla.paused)
            => /\ dla'.grid = dla.grid
               /\ dla'.cur_part = dla.cur_part
               /\ dla'.stuck_particles = dla.stuck_particles
               /\ dla'.updates = dla.updates]_vars

\* the worker ends a lock hold in which all BatchSize calls moved a particle
C8_Witness ==
    /\ wpc = "drop"
    /\ lock = "worker"
    /\ hold.steps = BatchSize
    /\ dla.updates >= BatchSize
    /\ ~dla.is_complete

\* C9: every handler call and every read of the consumer happens while the
\* worker is outside its lock hold, so never between two calls of update of
\* a batch and never in the middle of a call.
C9_ConsumerOutsideBatch ==
    [][(ev'.op \in ConsumerOps /\ ev'.out # "done") => ~WorkerHolds]_vars

\* the pause handler acted between two batches, a walking particle in flight
C9_Witness ==
    /\ ev = EvArg("pause_clicked", "ok", PAUSE_BUTTON_TEXT)
    /\ dla.paused
    /\ dla.cur_part.exists
    /\ ~dla.is_complete
    /\ dla.updates >= BatchSize

----------------------------------------------------------------------------
(* Properties of the persistence codec *)

----------------------------------------------------------------------------
(* Properties of the handlers *)

\* C11: a load of a file that cannot be read, cannot be decompressed or does
\* not decode to a Grid raises no hard failure and leaves the whole
\* simulation state unchanged.
C11_FailedLoadIsAbsorbed ==
    [][(ev'.op = "from_clicked" /\ ev'.out # "loaded")
        => (failure' = "none" /\ dla' = dla)]_vars

C13_SaveKeepsExistingFile ==
    [][(ev'.op = "save_clicked" /\ Exists(fs, AddGz(ev'.arg[1])))
        => (fs' = fs /\ dla' = dla /\ failure' = failure)]_vars

\* a grid was saved, the simulation went on, and a second save to the same
\* path found the compressed file of the first
C13_Witness ==
    /\ ev = EvArg("save_clicked", "ok", [base |-> "a", gz |-> 0])
    /\ Exists(fs, [base |-> "a", gz |-> 1])
    /\ IsGz(fs[[base |-> "a", gz |-> 1]])
    /\ ~deserialize_fails(UnGz(fs[[base |-> "a", gz |-> 1]]))
    /\ deserialize(UnGz(fs[[base |-> "a", gz |-> 1]])) # dla.grid
    /\ deserialize(UnGz(fs[[base |-> "a", gz |-> 1]])) # StaleGrid

\* C14: handle_particles_changed(n) called when is_complete is true and n
\* is greater than particles leaves is_complete false, paused true and
\* particles = n.
C14_RaisedTargetReopens ==
    [][(ev'.op = "particles_changed" /\ dla.is_complete /\ ev'.arg[1] > dla.particles)
        => /\ failure' = "none"
           /\ ~dla'.is_complete
           /\ dla'.paused
           /\ dla'.particles = ev'.arg[1]]_vars

\* the target of a simulation that has run was raised above its stuck
\* particles; the simulation is paused and not complete
C14_Witness ==
    /\ ev.op = "particles_changed" /\ ev.out = "ok"
    /\ dla.particles = ev.arg[1]
    /\ dla.stuck_particles < dla.particles
    /\ dla.updates > 0
    /\ ~dla.cur_part.exists
    /\ ~dla.is_complete
    /\ dla.paused

\* C15: handle_particles_changed(n) called in a paused or complete state
\* with n equal to stuck_particles returns with is_complete true and
\* particles = n.
C15_TargetAtStuckCompletes ==
    [][(/\ ev'.op = "particles_changed"
        /\ dla.paused \/ dla.is_complete
        /\ ev'.arg[1] = dla.stuck_particles)
        => (dla'.is_complete /\ dla'.particles = ev'.arg[1])]_vars

\* C16: handle_particles_changed called while paused and is_complete are
\* both false fails its assertion and leaves particles, is_complete and
\* paused as they were.
C16_RunningTargetChangeRejected ==
    [][(ev'.op = "particles_changed" /\ ~dla.paused /\ ~dla.is_complete)
        => /\ failure' = "assert"
           /\ dla'.particles = dla.particles
           /\ dla'.is_complete = dla.is_complete
           /\ dla'.paused = dla.paused]_vars

\* the assertion stopped a call that asked for another target while the
\* simulation was running
C16_Witness ==
    /\ failure = "assert"
    /\ ev.op = "particles_changed" /\ ev.out = "panic"
    /\ ev.arg[1] # dla.particles
    /\ ~dla.paused
    /\ ~dla.is_complete
    /\ dla.updates > 0

\* C17: handle_pause_button_clicked with the label that matches the state
\* ("Start" when paused, "Stop" when not) flips paused and changes no other
\* field; with any other label it fails hard and paused is not flipped.
C17_PauseLabelChecked ==
    [][(ev'.op = "pause_clicked")
        => IF ev'.arg[1] = (IF dla.paused THEN "Start" ELSE "Stop")
             THEN /\ failure' = "none"
                  /\ dla' = [dla EXCEPT !.paused = ~dla.paused]
                  /\ fs' = fs
             ELSE /\ failure' # "none"
                  /\ dla'.paused = dla.paused]_vars

\* the simulation was stopped by its "Stop" label while a particle walked
C17_Witness ==
    /\ ev = EvArg("pause_clicked", "ok", "Stop")
    /\ failure = "none"
    /\ dla.paused
    /\ dla.cur_part.exists
    /\ dla.updates > 0

\* the seed kind and the dimensions a reseed was asked for: the kind given
\* to handle_grid_type_selected with the current dimensions, or the recorded
\* kind with the dimensions given to handle_reset
Reseeded == ev.op \in {"grid_type_selected", "reset"} /\ ev.out = "ok"
ReseedKind(d, e) == IF e.op = "reset" THEN d.grid_type ELSE e.arg[1]
ReseedSize(d, e) ==
    IF e.op = "reset" THEN e.arg[1] ELSE <<d.grid.width, d.grid.height>>

\* C18: after a reseed (handle_grid_type_selected or handle_reset) the grid
\* is a fresh seed grid of the requested kind and dimensions,
\* stuck_particles is its number of filled cells, there is no active
\* particle, is_complete is false, updates is 0 and paused is true.
C18_ReseedStartsOver ==
    [][Reseeded'
        => LET kind == ReseedKind(dla, ev')
               size == ReseedSize(dla, ev')
           IN  /\ dla'.grid \in Grid_from(kind, size[1], size[2])
               /\ dla'.grid.width = size[1] /\ dla'.grid.height = size[2]
               /\ Len(dla'.grid.cells) = size[1] * size[2]
               /\ \A i \in 1..Len(dla'.grid.cells) : dla'.grid.cells[i].id = 0
               /\ dla'.stuck_particles = Cardinality(FilledIdxs(dla'))
               /\ ~dla'.cur_part.exists
               /\ ~dla'.is_complete
               /\ dla'.updates = 0
               /\ dla'.paused]_vars

\* a reset left a fresh 2x2 grid with its single seed cell and a resize
\* pending
C18_Witness ==
    /\ Reseeded
    /\ ev.op = "reset"
    /\ dla.do_resize
    /\ dla.grid.width = 2 /\ dla.grid.height = 2
    /\ dla.grid_type = "Center"
    /\ dla.stuck_particles = 1
    /\ dla.particles > 2
    /\ dla.updates = 0 /\ dla.paused /\ ~dla.is_complete /\ ~dla.cur_part.exists

\* C19: a reseed leaves particles, fill_color, empty_color and spawn_radius
\* as they were, and handle_grid_type_selected also leaves do_resize as it
\* was.
C19_ReseedKeepsSettings ==
    [][Reseeded'
        => /\ dla'.particles = dla.particles
           /\ dla'.fill_color = dla.fill_color
           /\ dla'.empty_color = dla.empty_color
           /\ dla'.spawn_radius = dla.spawn_radius
           /\ (ev'.op = "grid_type_selected" => dla'.do_resize = dla.do_resize)]_vars

\* another seed kind was selected for a simulation whose colours, radius
\* and target had been changed
C19_Witness ==
    /\ Reseeded
    /\ ev = EvArg("grid_type_selected", "ok", "Center")
    /\ dla.fill_color = "Red"
    /\ dla.empty_color = "White"
    /\ dla.spawn_radius = Some(MaxRadius)
    /\ dla.particles > dla.stuck_particles + 1
    /\ ~dla.do_resize

\* C20: handle_reset(width, height) reseeds with the recorded seed kind at
\* the given dimensions, sets do_resize when (width, height) differs from
\* the current dimensions and leaves do_resize as it was when it does not.
C20_ResetResizes ==
    [][(ev'.op = "reset" /\ ev'.out = "ok")
        => /\ dla'.grid_type = dla.grid_type
           /\ dla'.grid \in Grid_from(dla.grid_type, ev'.arg[1][1], ev'.arg[1][2])
           /\ dla'.do_resize = (IF ev'.arg[1] # <<dla.grid.width, dla.grid.height>>
                                  THEN TRUE ELSE dla.do_resize)]_vars

\* a reset to 2x2 left a fresh grid of the recorded kind and a resize
\* pending
C20_Witness ==
    /\ ev = EvArg("reset", "ok", <<2, 2>>)
    /\ dla.grid.width = 2 /\ dla.grid.height = 2
    /\ dla.grid_type = "BottomEdge"
    /\ dla.do_resize
    /\ dla.updates = 0

----------------------------------------------------------------------------
(* Properties of the settings handlers, the spawn policy and the step *)

\* a DlaGrid without its two colours and its theme
Uncolored(d) ==
    [d EXCEPT !.fill_color = "Seafoam", !.empty_color = "Black", !.theme = None]
\* every outcome of the next step, colours and theme left out
StepView(d) ==
    {[d |-> Uncolored(o.d), panic |-> o.panic, ev |-> o.ev] : o \in update(d)}
ColorOps == {"particle_color_changed", "background_color_changed", "theme_changed"}

\* C21: the particle colour, background colour, theme and spawn radius
\* handlers each change their own field and no other, and the outcomes of
\* the next step are the same before and after a colour or theme handler.
C21_SettingsOnlyOwnField ==
    [][/\ ev'.op = "particle_color_changed"
            => dla' = [dla EXCEPT !.fill_color = dla'.fill_color]
       /\ ev'.op = "background_color_changed"
            => dla' = [dla EXCEPT !.empty_color = dla'.empty_color]
       /\ ev'.op = "theme_changed"
            => dla' = [dla EXCEPT !.theme = dla'.theme]
       /\ ev'.op = "spawn_radius_changed"
            => dla' = [dla EXCEPT !.spawn_radius = dla'.spawn_radius]
       /\ ev'.op \in ColorOps
            => (failure' = failure /\ StepView(dla') = StepView(dla))]_vars

\* the theme was turned off while a particle of a running simulation with
\* other colours and a spawn radius walked
C21_Witness ==
    /\ ev = Ev("theme_changed", "ok")
    /\ dla.theme = None
    /\ dla.fill_color = "Red"
    /\ dla.empty_color = "White"
    /\ dla.spawn_radius = Some(MaxRadius)
    /\ dla.cur_part.exists
    /\ ~dla.paused /\ ~dla.is_complete

\* no draw of random_loc can be valid
NoValidSpawn(d) ==
    \A x \in 0..(d.grid.width - 1), y \in 0..(d.grid.height - 1) :
        ~valid_spawn(d, x, y)

\* C22: on a grid without a valid spawn cell, with no active particle and
\* is_complete false, one call of update makes at most MAX_RETRIES draws,
\* returns, raises nothing and leaves is_complete true.
C22_ExhaustedSpawnCompletes ==
    /\ [](wpc = "random_loc" => wi < MAX_RETRIES)
    /\ [][(wpc = "random_loc" /\ NoValidSpawn(dla) /\ wpc' # "random_loc")
            => (wi' = MAX_RETRIES /\ dla'.is_complete /\ failure' = "none")]_vars
    /\ [][(wpc \in {"spawn", "exhaust"} /\ wpc' = "off")
            => (dla.is_complete => dla'.is_complete) /\ failure' = "none"]_vars
    /\ (wpc = "random_loc" /\ NoValidSpawn(dla))
          ~> (wpc = "off" /\ dla.is_complete /\ wi = MAX_RETRIES)

\* update returned from a grid with every cell filled after MAX_RETRIES
\* rejected draws
C22_Witness ==
    /\ wpc = "off"
    /\ ev.op = "update" /\ ev.out \in {"exhaust_stick", "exhaust_free"}
    /\ wi = MAX_RETRIES
    /\ dla.is_complete
    /\ dla.updates = 1
    /\ \A i \in 1..Len(dla.grid.cells) : dla.grid.cells[i].filled
    /\ dla.grid_type = "AllEdges"

----------------------------------------------------------------------------
(* Properties of the seed catalog *)

\* the 0-based indices of the filled cells of a grid
GridFilled(g) == {i \in 0..(Len(g.cells) - 1) : g.cells[i + 1].filled}
\* Grid::from was called with this kind
Called(kind) == ev.op = "Grid::from" /\ loaded.grid_type = kind
\* the index of (x, y) in a grid of the width Grid::from was given
At(x, y) == x + y * loaded.width

\* C24: for every width > 0, height > 0 and seed kind, Grid::from does not
\* fail and returns a grid of exactly width * height cells.
C24_BuildNeverFails ==
    ev.op = "Grid::from"
        => /\ failure = "none"
           /\ loaded.built # None
           /\ Len(loaded.built[1].cells) = loaded.width * loaded.height
           /\ loaded.built[1].width = loaded.width
           /\ loaded.built[1].height = loaded.height

\* C25: Grid::from(Center, width, height) fills exactly the cell at index
\* width/2 + (height/2) * width.
C25_CenterSeed ==
    (Called("Center") /\ loaded.built # None)
        => GridFilled(loaded.built[1])
              = {At(loaded.width \div 2, loaded.height \div 2)}

\* C26: for width >= 3 and height >= 3, Grid::from(FourDots, width, height)
\* fills exactly the cells (width/3, height/3), (2*width/3, height/3),
\* (width/3, 2*height/3) and (2*width/3, 2*height/3).
C26_FourDotsSeed ==
    (Called("FourDots") /\ loaded.built # None
        /\ loaded.width >= 3 /\ loaded.height >= 3)
        => /\ Cardinality(GridFilled(loaded.built[1])) = 4
           /\ GridFilled(loaded.built[1])
                = {At(loaded.width \div 3, loaded.height \div 3),
                   At((2 * loaded.width) \div 3, loaded.height \div 3),
                   At(loaded.width \div 3, (2 * loaded.height) \div 3),
                   At((2 * loaded.width) \div 3, (2 * loaded.height) \div 3)}

\* C27: Grid::from(BottomEdge, w, h) fills exactly the cells with y = h - 1,
\* Grid::from(AllEdges, w, h) exactly the cells with x = 0, x = w - 1, y = 0
\* or y = h - 1, and every cell of both grids has id 0.
C27_EdgeSeeds ==
    LET w == loaded.width
        h == loaded.height
    IN  /\ Called("BottomEdge")
            => /\ failure = "none" /\ loaded.built # None
               /\ GridFilled(loaded.built[1]) = {At(x, h - 1) : x \in 0..(w - 1)}
               /\ Cardinality(GridFilled(loaded.built[1])) = w
               /\ \A i \in 1..(w * h) : loaded.built[1].cells[i].id = 0
        /\ Called("AllEdges")
            => /\ failure = "none" /\ loaded.built # None
               /\ GridFilled(loaded.built[1])
                    = {At(p[1], p[2]) : p \in
                         {q \in (0..(w - 1)) \X (0..(h - 1)) :
                             q[1] = 0 \/ q[1] = w - 1 \/ q[2] = 0 \/ q[2] = h - 1}}
               /\ \A i \in 1..(w * h) : loaded.built[1].cells[i].id = 0

\* the AllEdges seed of a 4x3 grid: ten border cells filled, two not
C27_Witness ==
    /\ Called("AllEdges")
    /\ loaded.width = 4 /\ loaded.height = 3
    /\ loaded.built # None
    /\ GridFilled(loaded.built[1]) = (0..11) \ {5, 6}

----------------------------------------------------------------------------
(* Properties of a step *)

StickOuts == {"walk_stick", "spawn_stick", "exhaust_stick"}
\* the cell of the grid of d at position pos
CellAt(d, pos) == d.grid.cells[get_idx(d, pos[1], pos[2]) + 1]

\* C28: a step in which the active particle sticks adds exactly one to
\* stuck_particles and sets the id of the stuck cell to the new
\* stuck_particles.
C28_StuckIdIsCount ==
    [][(ev'.op = "update" /\ ev'.out \in StickOuts)
        => /\ dla'.stuck_particles = dla.stuck_particles + 1
           /\ CellAt(dla', dla'.cur_part.pos).id = dla'.stuck_particles]_vars

\* C29: whenever an active particle exists its position is inside the grid
\* and its cell is filled, and a step that is not a no-op ends with the
\* cell it processed filled.
C29_ActiveCellFilled ==
    Running =>
        /\ dla.cur_part.exists
              => /\ InBounds(dla.grid, dla.cur_part.pos)
                 /\ CellAt(dla, dla.cur_part.pos).filled
        /\ Stepped
              => /\ InBounds(dla.grid, dla.cur_part.pos)
                 /\ CellAt(dla, dla.cur_part.pos).filled

----------------------------------------------------------------------------
(* A load of a grid saved at another size, followed by a raised particle
   target that lets the simulation go on over the loaded grid *)

ReloadSizes == {<<1, 2>>, <<2, 3>>}

InitReload ==
    /\ \E size \in ReloadSizes :
          \E g \in Grid_from("BottomEdge", size[1], size[2]) :
              dla = DlaGrid_from(g, "BottomEdge", Grid_stuck_particles(g) + 1)
    /\ InitRest

NextReload ==
    \/ Step
    \/ \E p \in FileSavePaths : SaveClicked(p, TRUE)
    \/ \E p \in HandlerPaths : FromClicked(p)
    \/ Reset(ReloadSizes)
    \/ ParticlesChanged({dla.stuck_particles + 1})

SpecReload == InitReload /\ [][NextReload]_vars

\* a call of update that moved the active particle
Walked ==
    /\ dla.cur_part.exists
    /\ ev'.op = "update"
    /\ ev'.out \in {"walk_stick", "walk_free"}

\* C30: a step taken while an active particle exists moves it to one of the
\* 8 Moore neighbours of its old position, in bounds and unfilled in the
\* grid the step started from; after the step the cell of the old position
\* is unfilled, and no cell other than those of the old and the new
\* position has changed its filled flag.
C30_WalkMovesOneCell ==
    [][Walked =>
          LET old == dla.cur_part.pos
              new == dla'.cur_part.pos
          IN  /\ new \in get_neighbors(old[1], old[2])
              /\ InBounds(dla.grid, new)
              /\ ~CellAt(dla, new).filled
              /\ InBounds(dla'.grid, old) => ~CellAt(dla', old).filled
              /\ \A x \in 0..(dla.grid.width - 1), y \in 0..(dla.grid.height - 1) :
                    <<x, y>> \notin {old, new}
                        => CellAt(dla', <<x, y>>).filled = CellAt(dla, <<x, y>>).filled]_vars

\* the in-bounds Moore neighbours of a position that are filled
FilledNeighbors(d, pos) ==
    {n \in get_neighbors(pos[1], pos[2]) :
        InBounds(d.grid, n) /\ CellAt(d, n).filled}

\* C31: in a step the processed particle sticks if and only if an in-bounds
\* Moore neighbour of its new position is filled once its old cell has been
\* vacated (the neighbours of the new position are not touched after that, so
\* they are read in the state the step ends in); a particle that moved sticks
\* to a cell other than the one it left, and a particle still active after a
\* step has no filled in-bounds neighbour.
C31_SticksIffFilledNeighbor ==
    [][(ev'.op = "update" /\ ev'.out \in StepOuts) =>
          LET new   == dla'.cur_part.pos
              stuck == dla'.stuck_particles = dla.stuck_particles + 1
          IN  /\ stuck <=> FilledNeighbors(dla', new) # {}
              /\ stuck <=> ~dla'.cur_part.exists
              /\ stuck <=> ev'.out \in StickOuts
              /\ ~stuck => dla'.stuck_particles = dla.stuck_particles
              /\ (dla.cur_part.exists /\ InBounds(dla'.grid, dla.cur_part.pos))
                    => ~CellAt(dla', dla.cur_part.pos).filled
              /\ dla'.cur_part.exists => FilledNeighbors(dla', new) = {}]_vars

\* a particle walked next to a filled cell and stuck; its old cell, a
\* neighbour of the new one, is vacated
C31_Witness ==
    /\ Running
    /\ ev.op = "update"
    /\ ev.out = "walk_stick"
    /\ ~dla.cur_part.exists
    /\ FilledNeighbors(dla, dla.cur_part.pos) # {}

\* a call of update counts itself exactly when the simulation is not complete
StepCounts ==
    ev'.op = "update" =>
        dla'.updates = IF dla.is_complete THEN dla.updates ELSE dla.updates + 1

\* a handler call that built a new grid through swap_grid_type
Reseeds == ev'.op \in {"grid_type_selected", "reset"} /\ ev'.out = "ok"

\* C32 as stated: update_count increases by exactly 1 on every step taken
\* while is_complete is false, is unchanged by a step taken while is_complete
\* is true, and never decreases over any sequence of steps and handler calls.
C32_UpdatesNeverDecrease ==
    [][StepCounts /\ dla'.updates >= dla.updates]_vars

\* C32, amended: update_count increases by exactly 1 on every step taken
\* while is_complete is false, is unchanged by a step taken while is_complete
\* is true, and never decreases over any sequence of steps and handler calls
\* other than a reseed or a reset, which set it to 0.
C32_UpdatesCountSteps ==
    [][/\ StepCounts
       /\ IF Reseeds THEN dla'.updates = 0 ELSE dla'.updates >= dla.updates]_vars

\* two calls of update have been counted since the grid was built
C32_Witness ==
    /\ Running
    /\ ev.op = "update"
    /\ ev.out \in StepOuts
    /\ dla.updates = 2

----------------------------------------------------------------------------
(* DlaGrid::run : `while !self.is_complete { self.update(); }`, called on a
   state the handlers and the stepping of the worker have produced.  The call
   borrows the DlaGrid mutably, so no handler runs before it returns, and
   the caller makes no further call once it has returned.  The
   `updates` counter, a u64 that an endless loop would count up without
   bound, is kept saturated at MaxUpdates while run is looping. *)

RunSize == <<1, 3>>
RunKinds == {"BottomEdge", "AllEdges"}
RunPositions == (0..(RunSize[1] - 1)) \X (0..(RunSize[2] - 1))

InitRun ==
    /\ \E kind \in RunKinds :
          \E g \in Grid_from(kind, RunSize[1], RunSize[2]) :
              dla = DlaGrid_from(g, kind, Grid_stuck_particles(g) + 1)
    /\ InitRest

\* DlaGrid::run is entered
RunCall ==
    /\ UiCall
    /\ wpc = "off"
    /\ wpc' = "run"
    /\ lock' = "run"
    /\ ev' = Ev("run", "called")
    /\ UNCHANGED <<dla, failure, fs, wi, gpc, hold, loaded>>

\* one turn of the loop of DlaGrid::run
RunStep ==
    /\ Running
    /\ wpc = "run"
    /\ ~dla.is_complete
    /\ \E o \in update(dla) :
          /\ dla' = [o.d EXCEPT !.updates = Min(@, MaxUpdates)]
          /\ failure' = o.panic
          /\ ev' = Ev("update", o.ev)
    /\ UNCHANGED <<fs, lock, wpc, wi, gpc, hold, loaded>>

\* the loop test of DlaGrid::run fails and the call returns
RunReturn ==
    /\ Running
    /\ wpc = "run"
    /\ dla.is_complete
    /\ wpc' = "off"
    /\ lock' = "none"
    /\ gpc' = "exit"
    /\ ev' = Ev("run", "returned")
    /\ UNCHANGED <<dla, failure, fs, wi, hold, loaded>>

NextRun ==
    \/ Step
    \/ \E p \in FileSavePaths : SaveClicked(p, TRUE)
    \/ \E p \in HandlerPaths : FromClicked(p)
    \/ GridTypeSelected(RunKinds)
    \/ ParticlesChanged({dla.stuck_particles + 1})
    \/ RunCall
    \/ RunStep
    \/ RunReturn

SpecRun == InitRun /\ [][NextRun]_vars

\* the random choices of update are fair: a position that a turn of the loop
\* can give the particle again and again is given to it again and again
SpecRunFair ==
    /\ SpecRun
    /\ WF_vars(RunStep)
    /\ WF_vars(RunReturn)
    /\ \A p \in RunPositions : SF_vars(RunStep /\ dla'.cur_part.pos = p)

\* C33: run() started from any state built from a configuration or reachable
\* through the handlers eventually returns, under fairness of the random
\* choices, and is_complete is true when it returns.
C33_RunReturns ==
    /\ (wpc = "run") ~> (wpc = "off" /\ ev = Ev("run", "returned") /\ dla.is_complete)
    /\ [][(ev'.op = "run" /\ ev'.out = "returned") => dla'.is_complete]_vars

\* C34: whenever do_resize is set, the consumer that next handles a redraw
\* takes the resize branch, and there it clears do_resize and takes the
\* grid's dimensions in one lock hold; nothing else clears do_resize, and no
\* draw of the grid into the pixel buffer happens while do_resize is set.
C34_ResizeBeforeDraw ==
    [][/\ (ev'.op = "redraw" /\ ev'.out = "do_resize" /\ dla.do_resize)
             => gpc' = "resize"
       /\ gpc = "resize" => dla.do_resize
       /\ (gpc = "resize" /\ gpc' # "resize")
             => /\ ~dla'.do_resize
                /\ ev' = EvArg("redraw", "resize", <<dla'.grid.width, dla'.grid.height>>)
                /\ dla'.grid = dla.grid
       /\ (dla.do_resize /\ ~dla'.do_resize)
             => gpc = "resize" /\ ev'.op = "redraw" /\ ev'.out = "resize"
       /\ (ev'.op = "redraw" /\ ev'.out = "draw") => ~dla.do_resize /\ ~dla'.do_resize]_vars

\* a redraw has just cleared do_resize and taken the dimensions of a grid
\* that the worker has stepped on since the handler set the flag
C34_Witness ==
    /\ Running
    /\ ev = EvArg("redraw", "resize", <<dla.grid.width, dla.grid.height>>)
    /\ ~dla.do_resize
    /\ gpc = "idle"
    /\ dla.updates > 0

\* C35: the simulation never overshoots its target: every call of update
\* made with is_complete false and stuck_particles <= particles ends with
\* stuck_particles <= particles.
C35_NoOvershoot ==
    [][(/\ ev'.op = "update"
        /\ ~dla.is_complete
        /\ dla.stuck_particles <= dla.particles)
          => dla'.stuck_particles <= dla'.particles]_vars

----------------------------------------------------------------------------
(* Gui::ui beside the worker thread.  `loaded` holds the Gui's own copies of
   the back end's fields: paused, complete, stuck_particles and the size are
   refreshed under the Mutex at the top of the control panel, particles is
   the value of the slider.  The widgets are met in the order of the code:
   the particle slider, then the start/stop button. *)

GuiSize == <<2, 3>>

InitGui ==
    /\ \E g \in Grid_from("BottomEdge", GuiSize[1], GuiSize[2]) :
          /\ dla = DlaGrid_from(g, "BottomEdge", Grid_stuck_particles(g) + 1)
          /\ loaded = [paused |-> TRUE, complete |-> FALSE, stuck_particles |-> 1,
                       particles |-> Grid_stuck_particles(g) + 1,
                       width |-> GuiSize[1], height |-> GuiSize[2]]
    /\ failure = "none"
    /\ ev = Ev("init", "ok")
    /\ fs = NoFiles
    /\ lock = "none"
    /\ wpc = "lock"
    /\ wi = 0
    /\ gpc = "idle"
    /\ hold = NoHold

\* Gui::ui: "Grab everything we need from the backend", one lock hold
GuiRead ==
    /\ Running
    /\ gpc = "prepare"
    /\ can_lock(lock)
    /\ loaded' = [loaded EXCEPT !.paused = dla.paused,
                                !.complete = dla.is_complete,
                                !.stuck_particles = dla.stuck_particles,
                                !.width = dla.grid.width,
                                !.height = dla.grid.height]
    /\ gpc' = "slider"
    /\ ev' = Ev("ui", "snapshot")
    /\ UNCHANGED <<dla, failure, fs, lock, wpc, wi, hold>>

\* the clamp range of the particle slider
SliderRange(gui) ==
    {n \in 0..MaxParticles :
        n >= gui.stuck_particles /\ n <= (gui.width * gui.height * 9) \div 10}

\* Gui::ui: the particle slider, enabled when the copies say paused or
\* complete; a changed value is handed to handle_particles_changed in a
\* lock hold of its own
GuiSlider ==
    /\ Running
    /\ gpc = "slider"
    /\ gpc' = "button"
    /\ \/ UNCHANGED <<dla, failure, ev, loaded>>
       \/ /\ loaded.paused \/ loaded.complete
          /\ can_lock(lock)
          /\ \E n \in SliderRange(loaded) \ {loaded.particles} :
                /\ loaded' = [loaded EXCEPT !.particles = n]
                /\ IF handle_particles_changed_panics(dla)
                     THEN /\ failure' = "assert"
                          /\ ev' = EvArg("particles_changed", "panic", n)
                          /\ UNCHANGED dla
                     ELSE /\ dla' = handle_particles_changed(dla, n)
                          /\ ev' = EvArg("particles_changed", "ok", n)
                          /\ UNCHANGED failure
    /\ UNCHANGED <<fs, lock, wpc, wi, hold>>

\* Gui::ui: the start/stop button, enabled when the copies say not complete
\* and stuck_particles < particles; its label follows the copy of paused
GuiPause ==
    /\ Running
    /\ gpc = "button"
    /\ gpc' = "idle"
    /\ \/ ev' = Ev("ui", "done") /\ UNCHANGED <<dla, failure, loaded>>
       \/ /\ ~loaded.complete /\ loaded.stuck_particles < loaded.particles
          /\ can_lock(lock)
          /\ LET text == IF loaded.paused THEN UNPAUSE_BUTTON_TEXT
                                          ELSE PAUSE_BUTTON_TEXT
             IN  /\ loaded' = [loaded EXCEPT !.paused = ~loaded.paused]
                 /\ IF handle_pause_button_clicked_panics(dla, text)
                      THEN /\ failure' = "desync"
                           /\ ev' = EvArg("pause_clicked", "panic", text)
                           /\ UNCHANGED dla
                      ELSE /\ dla' = handle_pause_button_clicked(dla, text)
                           /\ ev' = EvArg("pause_clicked", "ok", text)
                           /\ UNCHANGED failure
    /\ UNCHANGED <<fs, lock, wpc, wi, hold>>

NextGui ==
    \/ WorkerLock
    \/ WorkerCheck
    \/ WorkerMove
    \/ WorkerStick
    \/ WorkerDrop
    \/ WorkerWake
    \/ RedrawRead
    \/ RedrawDraw
    \/ GuiRead
    \/ GuiSlider
    \/ GuiPause

SpecGui == InitGui /\ [][NextGui]_vars

\* C36: a step of the worker never changes paused and never changes
\* is_complete from true to false; so once the consumer has read paused or
\* is_complete as true under the lock, one of them is true at every moment
\* up to its call of handle_particles_changed, whatever the worker did in
\* between, and the assertion of the handler holds at that call.
C36_SliderAssertionHolds ==
    /\ [][(ev'.op \in WorkerOps)
             => /\ dla'.paused = dla.paused
                /\ dla.is_complete => dla'.is_complete]_vars
    /\ []((gpc = "slider" /\ (loaded.paused \/ loaded.complete))
             => (dla.paused \/ dla.is_complete))
    /\ [][(ev'.op = "particles_changed")
             => /\ dla.paused \/ dla.is_complete
                /\ ev'.out = "ok"
                /\ failure' = "none"]_vars

\* the slider's handler ran on a simulation that the worker had completed
\* while it was not paused
C36_Witness ==
    /\ Running
    /\ ev.op = "particles_changed"
    /\ ev.out = "ok"
    /\ loaded.complete
    /\ ~loaded.paused
    /\ dla.updates > 0

\* the cells the seed of the current kind and size fills
SeedIdxs(d) ==
    UNION {FilledIdxs([grid |-> g]) :
              g \in Grid_from(d.grid_type, d.grid.width, d.grid.height)}

\* C37: between two grid replacements a seed cell, and a cell on which a
\* particle has stuck (the cells with an id), stays filled under every
\* sequence of steps and target / radius / pause handler calls.
C37_AggregateStaysFilled ==
    Running =>
        /\ \A i \in SeedIdxs(dla) : dla.grid.cells[i + 1].filled
        /\ \A i \in 1..Len(dla.grid.cells) :
              dla.grid.cells[i].id # 0 => dla.grid.cells[i].filled

\* C38: a step in which random_loc exhausts its retries only forces
\* completion: it sets is_complete, leaves stuck_particles unchanged and
\* changes neither the filled flag nor the id of a cell that was filled
\* before the step.
C38_ExhaustedStepOnlyCompletes ==
    [][(ev'.op = "update" /\ ev'.out \in {"exhaust_stick", "exhaust_free"})
          => /\ dla'.is_complete
             /\ dla'.stuck_particles = dla.stuck_particles
             /\ \A i \in 1..Len(dla.grid.cells) :
                   dla.grid.cells[i].filled
                       => dla'.grid.cells[i] = dla.grid.cells[i]]_vars

\* C39: whenever a handler call changes the grid's width or its height,
\* do_resize is true when that handler returns.
C39_ShapeChangeSetsResize ==
    [][(\/ dla'.grid.width # dla.grid.width
        \/ dla'.grid.height # dla.grid.height) => dla'.do_resize]_vars

\* C40: when the simulation is saved in a state in which saving is allowed
\* (paused or complete) and the file the save wrote is then loaded,
\* stuck_particles after the load equals stuck_particles at the save.  The
\* load follows the save directly, so the state of the save is the state
\* the load starts from.
C40_SaveLoadKeepsStuck ==
    [][(/\ ev.op = "save_clicked"
        /\ dla.paused \/ dla.is_complete
        /\ ev'.op = "from_clicked"
        /\ ev'.out = "loaded"
        /\ ev'.arg[1] = AddGz(ev.arg[1])
        /\ fs[ev'.arg[1]] = Gz(serialize(dla.grid)))
          => dla'.stuck_particles = dla.stuck_particles]_vars

====
